---- MODULE Spec2Model ----
(***************************************************************************)
(* State-machine model of the skinned-model loader and pose evaluator of   *)
(* src/src/model.cpp (ModelManager) with the data layout of                 *)
(* src/include/model.hpp.                                                   *)
(*                                                                          *)
(* Conventions                                                              *)
(*  - a node name is a natural number; 0 is the empty string;               *)
(*  - aiNode* values are node indices 1..N (0 is nullptr); the address of   *)
(*    node n, which std::set<BoneInfo> compares, is scene.addr[n];          *)
(*  - a glm::mat4 is a finite product of opaque factors, kept as the        *)
(*    sequence of its factors (the identity is the empty product), so that  *)
(*    only equalities that hold for all matrices hold in the model;         *)
(*  - a float is an exact rational <<num, den>> or an integer;              *)
(*  - storage the constructors leave uninitialised holds the values of      *)
(*    `fresh`, chosen arbitrarily in Init.                                  *)
(***************************************************************************)
EXTENDS Integers, Sequences, FiniteSets, TLC

VARIABLES
    scene,      \* what importer_.ReadFile returns for the path
    fresh,      \* contents of uninitialised storage
    model,      \* struct Model
    animation,  \* struct Animation
    vertices,   \* std::vector<VertPNUBiBw> uploaded by load_model
    pose,       \* the caller's Pose buffer
    pc,         \* position of the caller (main)
    result,     \* what load_model returned
    oob,        \* some write went past a fixed-capacity array
    assigned,   \* bone_id taken by each iteration of process_bones' loop
    time,       \* argument of the last update_pose
    ub,         \* outcome of the last read of an empty key array
    vert,       \* process_mesh: the vertex being assembled
    pending,    \* process_mesh: contributions not yet applied
    applied,    \* process_mesh: contributions already applied
    vpc,        \* process_mesh: position in the function
    global_pose,\* the local Pose of draw_model and draw_skeleton
    inst,       \* the model instances that share the loaded asset
    ks          \* get_key_value: one call, statement by statement

vars == <<scene, fresh, model, animation, vertices, pose, pc, result, oob,
          assigned, time, ub, vert, pending, applied, vpc, global_pose,
          inst, ks>>

(***************************************************************************)
(* Program constants                                                        *)
(***************************************************************************)
MAX_MESHES == 20
MAX_BONES == 100
FRAME_RATE == 24

(***************************************************************************)
(* Bounds of the model                                                      *)
(***************************************************************************)
MaxNodes == 3
MaxTracks == 2
MaxTime == 8
MaxContribs == 5
MaxWeight == 3
CombDepth == 10

Byte(x) == x % (2 ^ 8)

BoneSlots == 0 .. (MAX_BONES - 1)
MeshSlots == 0 .. (MAX_MESHES - 1)

(***************************************************************************)
(* Rationals <<n, d>> with d > 0                                            *)
(***************************************************************************)
RECURSIVE Gcd(_, _)
Gcd(a, b) == IF b = 0 THEN a ELSE Gcd(b, a % b)

Abs(x) == IF x < 0 THEN 0 - x ELSE x

\* n/d in lowest terms
RatNorm(n, d) == LET g == Gcd(Abs(n), d) IN <<n \div g, d \div g>>

Rat(n) == <<n, 1>>
RatLess(a, b) == a[1] * b[2] < b[1] * a[2]
RatAdd(a, b) == RatNorm(a[1] * b[2] + b[1] * a[2], a[2] * b[2])
RatDiv(a, b) == RatNorm(a[1] * b[2], a[2] * b[1])

(***************************************************************************)
(* std::unordered_map: a function whose domain is the set of keys           *)
(***************************************************************************)
MapPut(m, k, v) == (k :> v) @@ m
MapDel(m, k) == [x \in (DOMAIN m) \ {k} |-> m[x]]
EmptyMap == [x \in {} |-> 0]

(***************************************************************************)
(* std::array<T, cap>: slot i holds at[i] where that is defined and `rest`  *)
(* elsewhere, so that an array of cap equal elements stays small            *)
(***************************************************************************)
ArrNew(cap, v) == [cap |-> cap, rest |-> v, at |-> EmptyMap]
ArrGet(arr, i) == IF i \in DOMAIN arr.at THEN arr.at[i] ELSE arr.rest

\* a write to slot i; past the end nothing of the array changes
ArrPut(arr, i, v) ==
    IF i < 0 \/ i >= arr.cap THEN arr
    ELSE IF v = arr.rest THEN [arr EXCEPT !.at = MapDel(@, i)]
    ELSE [arr EXCEPT !.at = MapPut(@, i, v)]

Last(seq) == seq[Len(seq)]

(***************************************************************************)
(* Matrices, quaternions, PosRotScale                                       *)
(***************************************************************************)
Quat(q) == <<q, q, 0, 1>>
IdentityQuat == Quat(0)
ZeroQuat == <<0, 0, 0, 0>>

\* one factor of a matrix product: translation p, rotation r, scale s and
\* whether the basis has a residue (shear, bottom row) that a
\* position/rotation/scale triple cannot hold
Factor(p, r, s, sh) == [p |-> p, r |-> r, s |-> s, sh |-> sh]
IdentityFactor == Factor(Rat(0), IdentityQuat, 1, FALSE)

IdentityMat == << >>
ZeroMat == << Factor(Rat(0), ZeroQuat, 0, FALSE) >>

MatOf(f) == IF f = IdentityFactor THEN IdentityMat ELSE << f >>

MatMul(a, b) == a \o b

\* ai_to_glm_mat4: the same matrix in column-major layout
ai_to_glm_mat4(ai_mat4) == MatOf(ai_mat4)

\* the opaque factor  ai_to_glm_mat4(bone->mOffsetMatrix) * inverse(full_transform)
\* of line 196, for aiBone offset matrix `offm` bound under node `node`
OffsetFactor(offm, node) == Factor(Rat(0 - offm), Quat(0 - node), 1, TRUE)

mat4_to_pos_rot_scale(mat) ==
    IF mat = IdentityMat
    THEN [position |-> Rat(0), rotation |-> IdentityQuat, scale |-> 1]
    ELSE [position |-> mat[1].p, rotation |-> mat[1].r, scale |-> mat[1].s]

to_mat4(prs) == MatOf(Factor(prs.position, prs.rotation, prs.scale, FALSE))

\* PosRotScale{}: position and scale have initialisers, rotation has none
DefaultPRS(f) == [position |-> Rat(0), rotation |-> f.quat, scale |-> 1]

(***************************************************************************)
(* The scene graph (aiScene, aiNode)                                        *)
(***************************************************************************)
Nodes(s) == 1 .. Len(s.parent)
RootNode == 1

\* sequencing of statements: the state x that the statements so far have
\* produced is computed before the value y of what follows
Strict(x, y) == IF x = x THEN y ELSE x

\* A loop over all nodes or bones of a scene is evaluated by halves: the
\* iterations lo .. mid, then (operator ..._rest) the iterations mid + 1 .. hi
\* on the state that the first half left.
Mid(lo, hi) == (lo + hi) \div 2

\* node->mChildren, in order
mChildren(s, n) ==
    LET kids == {c \in Nodes(s) : s.parent[c] = n}
    IN [i \in 1 .. Cardinality(kids) |->
           CHOOSE c \in kids : Cardinality({d \in kids : d < c}) = i - 1]

\* the order in which the explicit stack of process_bones and load_model
\* pops the nodes: a node, then the subtrees of its children last to first
RECURSIVE StackOrderFrom(_, _)
RECURSIVE StackOrderOfChildren(_, _, _)

StackOrderOfChildren(s, kids, i) ==
    IF i = 0 THEN << >>
    ELSE StackOrderFrom(s, kids[i]) \o StackOrderOfChildren(s, kids, i - 1)

StackOrderFrom(s, node) ==
    << node >> \o StackOrderOfChildren(s, mChildren(s, node),
                                       Len(mChildren(s, node)))

StackOrder(s) == StackOrderFrom(s, RootNode)

(***************************************************************************)
(* process_bones, first loop: name -> bind offset, over every mesh that a   *)
(* node references, in the order the stack visits the nodes                 *)
(***************************************************************************)
\* lines 193-196
RECURSIVE OffsetsOfBones(_, _, _, _)
OffsetsOfBones(bo, bones, j, node) ==
    IF j > Len(bones) THEN bo
    ELSE Strict(bo, OffsetsOfBones(
                        MapPut(bo, bones[j].name,
                               MatOf(OffsetFactor(bones[j].offm, node))),
                        bones, j + 1, node))

\* lines 191-197
RECURSIVE OffsetsOfMeshes(_, _, _, _)
OffsetsOfMeshes(s, bo, node, i) ==
    IF i > Len(s.mMeshes[node]) THEN bo
    ELSE Strict(bo, OffsetsOfMeshes(
                        s, OffsetsOfBones(bo, s.meshes[s.mMeshes[node][i]].bones,
                                          1, node),
                        node, i + 1))

\* lines 185-201 for the nodes order[lo .. hi]
RECURSIVE OffsetsOfNodes(_, _, _, _, _)
RECURSIVE OffsetsOfNodes_rest(_, _, _, _, _)

OffsetsOfNodes_rest(s, left, order, lo, hi) ==
    IF left = left THEN OffsetsOfNodes(s, left, order, lo, hi) ELSE left

OffsetsOfNodes(s, bo, order, lo, hi) ==
    IF lo > hi THEN bo
    ELSE IF lo = hi THEN OffsetsOfMeshes(s, bo, order[lo], 1)
    ELSE OffsetsOfNodes_rest(s, OffsetsOfNodes(s, bo, order, lo, Mid(lo, hi)),
                             order, Mid(lo, hi) + 1, hi)

bone_offsets(s) ==
    OffsetsOfNodes(s, EmptyMap, StackOrder(s), 1, Len(StackOrder(s)))

(***************************************************************************)
(* gather_bones: acc is the pair of out-parameters (included_bones,         *)
(* ai_bone_ends); the result adds the returned bool as field inc            *)
(***************************************************************************)
RECURSIVE gather_bones(_, _, _, _, _, _, _)
RECURSIVE gather_children(_, _, _, _, _, _, _, _)

\* lines 156-166 without the assignment: the result of the child is dropped
include_child_dropped(should_include, r) ==
    [r EXCEPT !.inc = should_include]

\* lines 156-166: a child that returns true sets should_include
include_child(should_include, r) ==
    [r EXCEPT !.inc = should_include \/ r.inc]

\* lines 155-167; acc.inc is should_include
gather_children(s, f, bo, acc, kids, i, is_bone, depth) ==
    IF i > Len(kids) THEN acc
    ELSE Strict(acc,
                gather_children(
                    s, f, bo,
                    include_child(acc.inc,
                                  gather_bones(s, f, bo, acc, kids[i], is_bone,
                                               depth + 1)),
                    kids, i + 1, is_bone, depth))

\* lines 168-178
gather_self(r, node, offset, is_parent_bone, depth) ==
    IF r.inc
    THEN [inc |-> TRUE,
          bones |-> r.bones \cup
                    {[depth |-> depth, node |-> node, offset |-> offset]},
          ends |-> r.ends]
    ELSE IF is_parent_bone
    THEN [inc |-> FALSE, bones |-> r.bones, ends |-> Append(r.ends, node)]
    ELSE [inc |-> FALSE, bones |-> r.bones, ends |-> r.ends]

\* glm::mat4 offset is a local that only a skinned node assigns
gather_bones(s, f, bo, acc, node, is_parent_bone, depth) ==
    gather_self(
        gather_children(s, f, bo, [acc EXCEPT !.inc = s.name[node] \in DOMAIN bo],
                        mChildren(s, node), 1, s.name[node] \in DOMAIN bo, depth),
        node,
        IF s.name[node] \in DOMAIN bo THEN bo[s.name[node]] ELSE f.mat,
        is_parent_bone, depth)

\* BoneInfo::operator<
BoneInfoLess(s, this, that) ==
    IF this.depth # that.depth
    THEN this.depth < that.depth
    ELSE s.addr[this.node] < s.addr[that.node]

\* iteration order of std::set<BoneInfo>
SetOrder(s, S) ==
    [i \in 1 .. Cardinality(S) |->
        CHOOSE x \in S :
            Cardinality({y \in S : BoneInfoLess(s, y, x)}) = i - 1]

(***************************************************************************)
(* process_bones, lines 204-226.  st = [model, oob, assigned, threw]        *)
(***************************************************************************)
\* one iteration of  for (auto bone : included_bones)
bone_step(s, st, bone) ==
    LET m        == st.model
        bone_id  == Byte(m.n_bones)
        nm       == s.name[bone.node]
        mapping  == IF nm # 0 THEN MapPut(m.bone_mapping, nm, bone_id)
                    ELSE m.bone_mapping
        par      == s.parent[bone.node]
        has_par  == par # 0 /\ s.name[par] \in DOMAIN mapping
        dpose    == ai_to_glm_mat4(s.mTransformation[bone.node])
    IN [model |->
            [m EXCEPT
               !.n_bones = @ + 1,
               !.bone_mapping = mapping,
               !.parent_ids = IF has_par
                              THEN ArrPut(@, bone_id, mapping[s.name[par]])
                              ELSE @,
               !.offsets = ArrPut(@, bone_id, bone.offset),
               !.default_pose = ArrPut(@, bone_id, dpose),
               !.default_pose_prs =
                    ArrPut(@, bone_id, mat4_to_pos_rot_scale(dpose))],
        oob |-> st.oob \/ bone_id >= MAX_BONES,
        assigned |-> Append(st.assigned, [node |-> bone.node, id |-> bone_id]),
        threw |-> st.threw]

\* lines 208-219 for the bones order[lo .. hi]
RECURSIVE bone_loop(_, _, _, _, _)
RECURSIVE bone_loop_rest(_, _, _, _, _)

bone_loop_rest(s, left, order, lo, hi) ==
    IF left = left THEN bone_loop(s, left, order, lo, hi) ELSE left

bone_loop(s, st, order, lo, hi) ==
    IF lo > hi THEN st
    ELSE IF lo = hi THEN bone_step(s, st, order[lo])
    ELSE bone_loop_rest(s, bone_loop(s, st, order, lo, Mid(lo, hi)),
                        order, Mid(lo, hi) + 1, hi)

\* one iteration of  for (auto node : ai_bone_ends): bone_mapping.at throws
\* on a missing name
bone_end_step(s, st, node) ==
    LET key == s.name[s.parent[node]]
    IN IF st.threw THEN st
       ELSE IF key \notin DOMAIN st.model.bone_mapping
       THEN [st EXCEPT !.threw = TRUE]
       ELSE [st EXCEPT !.model.bone_ends =
                 Append(@, <<st.model.bone_mapping[key],
                             s.mTransformation[node].p>>)]

\* lines 220-226
RECURSIVE bone_end_loop(_, _, _, _)
bone_end_loop(s, st, ends, k) ==
    IF k > Len(ends) THEN st
    ELSE Strict(st, bone_end_loop(s, bone_end_step(s, st, ends[k]), ends, k + 1))

\* lines 204-226: g is what gather_bones left in included_bones and
\* ai_bone_ends
assign_bones(s, m, g) ==
    bone_end_loop(
        s,
        bone_loop(s, [model |-> [m EXCEPT !.n_bones = @ + 1],
                      oob |-> FALSE, assigned |-> << >>, threw |-> FALSE],
                  SetOrder(s, g.bones), 1, Cardinality(g.bones)),
        g.ends, 1)

process_bones(s, f, m) ==
    assign_bones(s, m,
                 gather_bones(s, f, bone_offsets(s),
                              [inc |-> FALSE, bones |-> {}, ends |-> << >>],
                              RootNode, FALSE, 0))

(***************************************************************************)
(* process_mesh, lines 249-282: the four (bone id, weight) slots            *)
(***************************************************************************)
Slots == 0 .. 3

\* lines 249-250
NewVertex == [bone_ids |-> [i \in Slots |-> 0],
              bone_weights |-> [i \in Slots |-> Rat(0)]]

\* get_min_index that looks at the left pair only
get_min_index_left_pair(v) ==
    IF RatLess(v[0], v[1]) THEN 0 ELSE 1

get_min_index(v) ==
    LET min_lhs == IF RatLess(v[0], v[1]) THEN 0 ELSE 1
        min_rhs == IF RatLess(v[2], v[3]) THEN 2 ELSE 3
    IN IF RatLess(v[min_lhs], v[min_rhs]) THEN min_lhs ELSE min_rhs

\* lines 259-264: one aiVertexWeight of bone bone_id arrives at its vertex
apply_weight(v, bone_id, mWeight) ==
    LET min_index == get_min_index(v.bone_weights)
    IN IF RatLess(v.bone_weights[min_index], Rat(mWeight))
       THEN [bone_ids |-> [v.bone_ids EXCEPT ![min_index] = bone_id],
             bone_weights |-> [v.bone_weights EXCEPT ![min_index] = Rat(mWeight)]]
       ELSE v

\* normalize_vertex without the else branch of line 278
normalize_vertex_no_fallback(v) ==
    LET w == v.bone_weights
        weight_total == RatAdd(RatAdd(RatAdd(w[0], w[1]), w[2]), w[3])
    IN IF RatLess(Rat(0), weight_total)
       THEN [v EXCEPT !.bone_weights = [i \in Slots |-> RatDiv(w[i], weight_total)]]
       ELSE v

\* lines 269-281
normalize_vertex(v) ==
    LET w == v.bone_weights
        weight_total == RatAdd(RatAdd(RatAdd(w[0], w[1]), w[2]), w[3])
    IN IF RatLess(Rat(0), weight_total)
       THEN [v EXCEPT !.bone_weights = [i \in Slots |-> RatDiv(w[i], weight_total)]]
       ELSE [bone_ids |-> [v.bone_ids EXCEPT ![0] = 0],
             bone_weights |-> [w EXCEPT ![0] = Rat(1)]]

\* lines 257-265: the aiVertexWeights of one aiBone
RECURSIVE weight_loop(_, _, _, _, _)
weight_loop(verts, mesh_offset, bone_id, mWeights, k) ==
    IF k > Len(mWeights) THEN verts
    ELSE Strict(verts,
                weight_loop(
                    [verts EXCEPT ![mesh_offset + mWeights[k].mVertexId + 1] =
                                     apply_weight(@, bone_id, mWeights[k].mWeight)],
                    mesh_offset, bone_id, mWeights, k + 1))

\* lines 254-266; st = [vertices, threw]; bone_mapping.at throws at line 256
RECURSIVE mesh_bone_loop(_, _, _, _, _)
mesh_bone_loop(verts, mesh_offset, bone_mapping, mBones, j) ==
    IF j > Len(mBones) THEN [vertices |-> verts, threw |-> FALSE]
    ELSE IF mBones[j].name \notin DOMAIN bone_mapping
    THEN [vertices |-> verts, threw |-> TRUE]
    ELSE Strict(verts,
                mesh_bone_loop(
                    weight_loop(verts, mesh_offset, bone_mapping[mBones[j].name],
                                mBones[j].mWeights, 1),
                    mesh_offset, bone_mapping, mBones, j + 1))

\* lines 268-282: the vertices of this mesh are normalised
normalize_mesh(mesh_offset, r) ==
    IF r.threw THEN r
    ELSE [vertices |->
              [i \in 1 .. Len(r.vertices) |->
                  IF i > mesh_offset THEN normalize_vertex(r.vertices[i])
                  ELSE r.vertices[i]],
          threw |-> FALSE]

\* process_mesh for one aiMesh appended to `verts`; [vertices, threw]
process_mesh(verts, bone_mapping, ai_mesh) ==
    normalize_mesh(
        Len(verts),
        mesh_bone_loop(verts \o [i \in 1 .. ai_mesh.mNumVertices |-> NewVertex],
                       Len(verts), bone_mapping, ai_mesh.bones, 1))

(***************************************************************************)
(* load_model, lines 308-403.  st = [model, animation, vertices,            *)
(* n_indices, oob, assigned, result]                                        *)
(***************************************************************************)
\* lines 337-339: the Mesh of ai_mesh goes to meshes[n_meshes++]; r is what
\* process_mesh made of the vertices
store_mesh(st, ai_mesh, r) ==
    LET slot == st.model.n_meshes
        mesh == [material_h |-> Byte(ai_mesh.mMaterialIndex),
                 offset |-> st.n_indices, count |-> ai_mesh.mNumIndices]
        m1   == [st.model EXCEPT !.n_meshes = @ + 1]
    IN IF st.result = "threw" THEN st
       ELSE [st EXCEPT
               !.model = IF r.threw THEN m1
                         ELSE [m1 EXCEPT !.meshes = ArrPut(@, slot, mesh)],
               !.vertices = r.vertices,
               !.n_indices = IF r.threw THEN @ ELSE @ + ai_mesh.mNumIndices,
               !.oob = @ \/ (~r.threw /\ slot >= MAX_MESHES),
               !.result = IF r.threw THEN "threw" ELSE @]

\* lines 337-339: one mesh reference of a node
node_mesh_step(s, st, mesh_index) ==
    store_mesh(st, s.meshes[mesh_index],
               process_mesh(st.vertices, st.model.bone_mapping,
                            s.meshes[mesh_index]))

\* lines 336-340: the mesh references mMeshes[i ..] of one node
RECURSIVE node_mesh_loop(_, _, _, _)
node_mesh_loop(s, st, node, i) ==
    IF i > Len(s.mMeshes[node]) THEN st
    ELSE Strict(st, node_mesh_loop(s, node_mesh_step(s, st, s.mMeshes[node][i]),
                                   node, i + 1))

\* lines 330-344 for the nodes order[lo .. hi]
RECURSIVE scene_mesh_loop(_, _, _, _, _)
RECURSIVE scene_mesh_loop_rest(_, _, _, _, _)

scene_mesh_loop_rest(s, left, order, lo, hi) ==
    IF left = left THEN scene_mesh_loop(s, left, order, lo, hi) ELSE left

scene_mesh_loop(s, st, order, lo, hi) ==
    IF lo > hi THEN st
    ELSE IF lo = hi THEN node_mesh_loop(s, st, order[lo], 1)
    ELSE scene_mesh_loop_rest(
             s, scene_mesh_loop(s, st, order, lo, Mid(lo, hi)),
             order, Mid(lo, hi) + 1, hi)

\* lines 382-400: one aiNodeAnim
channel_step(st, node_anim) ==
    LET slot == st.animation.n_channels
        a1   == [st.animation EXCEPT !.n_channels = @ + 1]
        map  == st.model.bone_mapping
    IN [st EXCEPT
          !.animation =
              IF node_anim.mNodeName \in DOMAIN map
              THEN LET channel == ArrGet(a1.channels, slot)
                   IN [a1 EXCEPT !.channels = ArrPut(@, slot,
                          [bone_id |-> map[node_anim.mNodeName],
                           position_keys |->
                               channel.position_keys \o node_anim.mPositionKeys,
                           rotation_keys |->
                               channel.rotation_keys \o node_anim.mRotationKeys])]
              ELSE a1,
          !.oob = @ \/ (node_anim.mNodeName \in DOMAIN map /\ slot >= MAX_BONES)]

\* lines 382-400
RECURSIVE channel_loop(_, _, _)
channel_loop(st, mChannels, i) ==
    IF i > Len(mChannels) THEN st
    ELSE Strict(st, channel_loop(channel_step(st, mChannels[i]), mChannels,
                                 i + 1))

\* lines 321-344: b is what process_bones returned
load_meshes(s, a, b) ==
    scene_mesh_loop(
        s,
        [model |-> b.model, animation |-> a, vertices |-> << >>,
         n_indices |-> 0, oob |-> b.oob, assigned |-> b.assigned,
         result |-> IF b.threw THEN "threw" ELSE "true"],
        StackOrder(s), 1, Len(StackOrder(s)))

\* lines 380-401: the first animation of the scene
load_animation(s, st) ==
    IF st.result = "threw" THEN st
    ELSE IF Len(s.mAnimations) > 0
    THEN channel_loop(
             [st EXCEPT !.animation.duration = s.mAnimations[1].mDuration],
             s.mAnimations[1].mChannels, 1)
    ELSE st

load_model(s, f, m, a) ==
    IF ~s.readable
    THEN [model |-> m, animation |-> a, vertices |-> << >>, n_indices |-> 0,
          oob |-> FALSE, assigned |-> << >>, result |-> "false"]
    ELSE load_animation(s, load_meshes(s, a, process_bones(s, f, m)))

(***************************************************************************)
(* get_key_value, lines 405-429, on a non-empty key array                   *)
(***************************************************************************)
\* glm::mix(x, y, a) = x * (1 - a) + y * a  on rationals
MixVec(x, y, a) ==
    RatNorm(x[1] * y[2] * (a[2] - a[1]) + y[1] * x[2] * a[1], x[2] * y[2] * a[2])

\* glm::mix on unit quaternions: the rotation a of the way from x to y
MixQuat(x, y, a) ==
    IF a[1] = 0 \/ x = y THEN x
    ELSE IF a[1] = a[2] THEN y
    ELSE <<x[1], y[1], a[1], a[2]>>

\* lines 414-426; bend - 1 is size_t arithmetic and wraps at bend = 0
RECURSIVE key_search(_, _, _, _)
key_search(keys, t, bbegin, bend) ==
    IF bend = 0 \/ bbegin < bend - 1
    THEN LET mid == bbegin + (bend - bbegin) \div 2
         IN IF keys[mid + 1].time > t
            THEN key_search(keys, t, bbegin, mid)
            ELSE IF mid < bend /\ keys[mid + 2].time < t
            THEN key_search(keys, t, mid + 1, bend)
            ELSE mid
    ELSE bbegin

\* glm::mix of the instantiation T: glm::vec3 or glm::quat
Mix(T, x, y, a) == IF T = "vec3" THEN MixVec(x, y, a) ELSE MixQuat(x, y, a)

\* get_key_value<T>; keys[i] of the source is keys[i + 1] here
get_key_value(T, keys, t) ==
    IF t < keys[1].time THEN keys[1].value
    ELSE IF t >= Last(keys).time THEN Last(keys).value
    ELSE LET bbegin == key_search(keys, t, 0, Len(keys) - 1)
             k0 == keys[bbegin + 1]
             k1 == keys[bbegin + 2]
             interp == RatNorm(t - k0.time, k1.time - k0.time)
         IN Mix(T, k0.value, k1.value, interp)

(***************************************************************************)
(* update_pose, lines 431-449.  u is what the read of an empty              *)
(* rotation_keys does: the access faults (u.crash) or yields u.quat         *)
(***************************************************************************)
\* looped_time without the wrap into [0, duration)
looped_time_unwrapped(t, duration) == t * FRAME_RATE

\* time - floor(time / duration) * duration; a zero duration gives NaN
looped_time(t, duration) ==
    LET scaled == t * FRAME_RATE
    IN IF duration = 0 THEN "NaN"
       ELSE scaled - (scaled \div duration) * duration

ReadsEmptyKeys(channel) ==
    channel.position_keys # << >> /\ channel.rotation_keys = << >>

\* lines 439-447 for channels[i]; st = [pose, oob, crashed]
pose_channel_step(m, f, a, lt, u, st, i) ==
    LET channel == ArrGet(a.channels, i)
        \* past the end of default_pose_prs the read yields whatever is there
        prs0 == IF channel.bone_id \in BoneSlots
                THEN ArrGet(m.default_pose_prs, channel.bone_id)
                ELSE DefaultPRS(f)
        prs1 == IF channel.position_keys # << >>
                THEN [prs0 EXCEPT !.position =
                         get_key_value("vec3", channel.position_keys, lt)]
                ELSE prs0
        prs2 == IF channel.position_keys # << >>
                THEN [prs1 EXCEPT !.rotation =
                         IF channel.rotation_keys = << >> THEN u.quat
                         ELSE get_key_value("quat", channel.rotation_keys, lt)]
                ELSE prs1
    IN IF ReadsEmptyKeys(channel) /\ u.crash
       THEN [st EXCEPT !.crashed = TRUE]
       ELSE [pose |-> ArrPut(st.pose, channel.bone_id, to_mat4(prs2)),
             oob |-> st.oob \/ channel.bone_id >= MAX_BONES,
             crashed |-> FALSE]

\* lines 438-448
RECURSIVE pose_channel_loop(_, _, _, _, _, _, _)
pose_channel_loop(m, f, a, lt, u, st, i) ==
    IF i >= a.n_channels \/ st.crashed THEN st
    ELSE pose_channel_loop(m, f, a, lt, u,
                           pose_channel_step(m, f, a, lt, u, st, i), i + 1)

\* lines 435-437: pose[i] = default_pose[i] for every i < n_bones
pose_reset_loop(m, p) ==
    LET reset == { i \in 0 .. (p.cap - 1) : i < m.n_bones }
        kept  == (DOMAIN p.at) \ reset
        moved == { i \in reset : ArrGet(m.default_pose, i) # p.rest }
    IN [p EXCEPT !.at = [i \in kept \cup moved |->
                            IF i \in reset THEN ArrGet(m.default_pose, i)
                            ELSE p.at[i]]]

update_pose(m, f, p, a, t, u) ==
    LET st0 == [pose |-> pose_reset_loop(m, p),
                oob |-> m.n_bones > MAX_BONES,
                crashed |-> FALSE]
    IN pose_channel_loop(m, f, a, looped_time(t, a.duration), u, st0, 0)

(***************************************************************************)
(* convert_local_to_global_pose, lines 518-532.  st = [pose, oob]; a read   *)
(* past the end of a std::array yields what uninitialised storage holds     *)
(***************************************************************************)
ArrRead(arr, i, beyond) == IF i < arr.cap THEN ArrGet(arr, i) ELSE beyond

\* convert_local_to_global_pose that multiplies the offset of bone i into
\* global_pose[i] inside the hierarchy pass
hierarchy_step_with_offset(m, f, local_pose, apply_offsets, st, i) ==
    LET parent == ArrRead(m.parent_ids, i, f.byte)
        local  == ArrRead(local_pose, i, f.mat)
        offset == IF apply_offsets THEN ArrRead(m.offsets, i, f.mat)
                  ELSE IdentityMat
        global == IF parent < m.n_bones
                  THEN MatMul(MatMul(ArrRead(st.pose, parent, f.mat), local),
                              offset)
                  ELSE MatMul(local, offset)
    IN [pose |-> ArrPut(st.pose, i, global), oob |-> st.oob \/ i >= MAX_BONES]

\* lines 521-525: global_pose[i] of the first loop
hierarchy_step(m, f, local_pose, apply_offsets, st, i) ==
    LET parent == ArrRead(m.parent_ids, i, f.byte)
        local  == ArrRead(local_pose, i, f.mat)
        global == IF parent < m.n_bones
                  THEN MatMul(ArrRead(st.pose, parent, f.mat), local)
                  ELSE local
    IN [pose |-> ArrPut(st.pose, i, global), oob |-> st.oob \/ i >= MAX_BONES]

\* lines 520-526 for i in lo .. hi
RECURSIVE hierarchy_loop(_, _, _, _, _, _, _)
RECURSIVE hierarchy_loop_rest(_, _, _, _, _, _, _)

hierarchy_loop_rest(m, f, local_pose, apply_offsets, left, lo, hi) ==
    IF left = left
    THEN hierarchy_loop(m, f, local_pose, apply_offsets, left, lo, hi)
    ELSE left

hierarchy_loop(m, f, local_pose, apply_offsets, st, lo, hi) ==
    IF lo > hi THEN st
    ELSE IF lo = hi
    THEN hierarchy_step(m, f, local_pose, apply_offsets, st, lo)
    ELSE hierarchy_loop_rest(
             m, f, local_pose, apply_offsets,
             hierarchy_loop(m, f, local_pose, apply_offsets, st, lo,
                            Mid(lo, hi)),
             Mid(lo, hi) + 1, hi)

\* line 529: global_pose[i] = global_pose[i] * model->offsets[i]
offset_step(m, f, st, i) ==
    [pose |-> ArrPut(st.pose, i, MatMul(ArrRead(st.pose, i, f.mat),
                                        ArrRead(m.offsets, i, f.mat))),
     oob |-> st.oob \/ i >= MAX_BONES]

\* lines 527-531 for i in lo .. hi
RECURSIVE offset_loop(_, _, _, _, _, _)
RECURSIVE offset_loop_rest(_, _, _, _, _, _)

offset_loop_rest(m, f, apply_offsets, left, lo, hi) ==
    IF left = left THEN offset_loop(m, f, apply_offsets, left, lo, hi)
    ELSE left

offset_loop(m, f, apply_offsets, st, lo, hi) ==
    IF ~apply_offsets \/ lo > hi THEN st
    ELSE IF lo = hi THEN offset_step(m, f, st, lo)
    ELSE offset_loop_rest(
             m, f, apply_offsets,
             offset_loop(m, f, apply_offsets, st, lo, Mid(lo, hi)),
             Mid(lo, hi) + 1, hi)

convert_local_to_global_pose(global_pose0, m, f, local_pose, apply_offsets) ==
    offset_loop(m, f, apply_offsets,
                hierarchy_loop(m, f, local_pose, apply_offsets,
                               [pose |-> global_pose0, oob |-> FALSE],
                               0, m.n_bones - 1),
                0, m.n_bones - 1)

(***************************************************************************)
(* Freshly constructed objects (Model mario; Animation mario_walk;)         *)
(***************************************************************************)
\* what uninitialised bytes, glm::mat4 and glm::quat hold
FreshMemory ==
    { [byte |-> 0,   mat |-> ZeroMat,     quat |-> ZeroQuat],
      [byte |-> 1,   mat |-> IdentityMat, quat |-> IdentityQuat],
      [byte |-> 255, mat |-> IdentityMat, quat |-> IdentityQuat] }

FreshModel(f) ==
    [n_meshes |-> 0,
     meshes |-> ArrNew(MAX_MESHES,
                    [material_h |-> f.byte, offset |-> f.byte, count |-> f.byte]),
     bone_mapping |-> EmptyMap,
     n_bones |-> 0,
     parent_ids |-> ArrNew(MAX_BONES, f.byte),
     bone_ends |-> << >>,
     offsets |-> ArrNew(MAX_BONES, f.mat),
     default_pose |-> ArrNew(MAX_BONES, f.mat),
     default_pose_prs |-> ArrNew(MAX_BONES, DefaultPRS(f))]

FreshChannel(f) ==
    [bone_id |-> f.byte, position_keys |-> << >>, rotation_keys |-> << >>]

FreshAnimation(f) ==
    [duration |-> f.byte, n_channels |-> 0,
     channels |-> ArrNew(MAX_BONES, FreshChannel(f))]

FreshPose(f) == ArrNew(MAX_BONES, f.mat)

(***************************************************************************)
(* The assets the importer can hand over                                    *)
(***************************************************************************)
Names == {0, 1, 2}

\* parent[1] = 0 (mParent of the root is null), every other parent is earlier
TreeShapes(N) ==
    {p \in [1 .. N -> 0 .. N] :
        p[1] = 0 /\ \A i \in 2 .. N : p[i] >= 1 /\ p[i] < i}

AddrOrders(N) == {[i \in 1 .. N |-> i], [i \in 1 .. N |-> N + 1 - i]}

NodeTransform(n, sheared) == Factor(Rat(n), Quat(n), 1, sheared)

\* an aiBone named nm binding vertex 0 with weight nm
SkinBone(nm) ==
    [name |-> nm, offm |-> nm,
     mWeights |-> << [mVertexId |-> 0, mWeight |-> nm] >>]

SkinChoices == { << >>, << 1 >>, << 1, 2 >> }

SkinMesh(skin) ==
    [bones |-> [i \in 1 .. Len(skin) |-> SkinBone(skin[i])],
     mNumVertices |-> 2, mNumIndices |-> 3, mMaterialIndex |-> 0]

MkScene(parent, name, addr, sheared, nrefs, skin, anims) ==
    [readable |-> TRUE,
     parent |-> parent, name |-> name, addr |-> addr,
     mTransformation |-> [n \in DOMAIN parent |-> NodeTransform(n, n \in sheared)],
     mMeshes |-> [n \in DOMAIN parent |->
                     IF n = RootNode THEN [i \in 1 .. nrefs |-> 1] ELSE << >>],
     meshes |-> << SkinMesh(skin) >>,
     mAnimations |-> anims]

\* every small tree, naming and address order, skinned by one mesh at the root
TreeScenes ==
    UNION { { MkScene(p, nm, ad, {}, 1, sk, << >>) :
                p \in TreeShapes(N), nm \in [1 .. N -> Names],
                ad \in AddrOrders(N), sk \in SkinChoices }
            : N \in 1 .. MaxNodes }

\* keyframe arrays, sorted by time
PositionKeys ==
    << [time |-> 1, value |-> Rat(0)], [time |-> 3, value |-> Rat(4)],
       [time |-> 4, value |-> Rat(2)] >>
RotationKeys ==
    << [time |-> 1, value |-> Quat(5)], [time |-> 4, value |-> Quat(6)] >>

NodeAnims ==
    [mNodeName : {2, 3},
     mPositionKeys : {<< >>, PositionKeys},
     mRotationKeys : {<< >>, RotationKeys}]

TrackLists == UNION { [1 .. k -> NodeAnims] : k \in 0 .. MaxTracks }

\* root "1" with children "2" (skinned) and "3" (not a bone), one animation
AnimScenes ==
    { MkScene(<<0, 1, 1>>, <<1, 2, 3>>, <<1, 2, 3>>, {RootNode}, 1, << 2 >>,
              << [mDuration |-> 5, mChannels |-> tr] >>)
        : tr \in TrackLists }

\* L nodes named 1 .. L: the root carries chains of CombDepth nodes, the last
\* node of every chain is skinned, the root references the mesh nrefs times
CombScene(L, nrefs) ==
    LET parent == [i \in 1 .. L |->
                      IF i = 1 THEN 0
                      ELSE IF (i - 2) % CombDepth = 0 THEN 1 ELSE i - 1]
        tips == {i \in 2 .. L : i = L \/ (i - 2) % CombDepth = CombDepth - 1}
    IN MkScene(parent, [i \in 1 .. L |-> i], [i \in 1 .. L |-> i], {}, nrefs,
               [k \in 1 .. Cardinality(tips) |->
                   CHOOSE i \in tips :
                       Cardinality({j \in tips : j < i}) = k - 1],
               << >>)

CapacityScenes ==
    { CombScene(L, k) : L \in {MAX_BONES - 1, MAX_BONES, MAX_BONES + 1},
                        k \in {1, MAX_MESHES, MAX_MESHES + 1} }

UnreadableScene == [MkScene(<<0>>, <<1>>, <<1>>, {}, 1, << >>, << >>)
                       EXCEPT !.readable = FALSE]

Scenes == TreeScenes \cup AnimScenes \cup CapacityScenes \cup {UnreadableScene}

(***************************************************************************)
(* The caller: main of the viewer                                           *)
(***************************************************************************)
NoRead == [crash |-> FALSE, quat |-> IdentityQuat]

\* no draw call is active, no instance runs, no get_key_value call is traced
NoPose == << >>
NoCall == [pc |-> "none"]
EmptyReads ==
    { [crash |-> TRUE, quat |-> IdentityQuat],
      [crash |-> FALSE, quat |-> ZeroQuat],
      [crash |-> FALSE, quat |-> Quat(7)] }

\* outcomes of the reads of empty key arrays that update_pose performs
ReadOutcomes(a) ==
    IF \E i \in BoneSlots :
          i < a.n_channels /\ ReadsEmptyKeys(ArrGet(a.channels, i))
    THEN EmptyReads ELSE {NoRead}

Init ==
    /\ scene \in Scenes
    /\ fresh \in FreshMemory
    /\ model = FreshModel(fresh)
    /\ animation = FreshAnimation(fresh)
    /\ vertices = << >>
    /\ pose = FreshPose(fresh)
    /\ pc = "start"
    /\ result = "none"
    /\ oob = FALSE
    /\ assigned = << >>
    /\ time = 0
    /\ ub = NoRead
    /\ vert = NewVertex
    /\ pending = << >>
    /\ applied = << >>
    /\ vpc = "idle"
    /\ global_pose = NoPose
    /\ inst = << >>
    /\ ks = NoCall

\* mm.load_model(&mario, &mario_walk, path); an exception ends the program
LoadModel ==
    /\ pc = "start"
    /\ LET r == load_model(scene, fresh, model, animation)
       IN /\ model' = r.model
          /\ animation' = r.animation
          /\ vertices' = r.vertices
          /\ oob' = (oob \/ r.oob)
          /\ assigned' = r.assigned
          /\ result' = r.result
          /\ pc' = IF r.result = "threw" THEN "terminated" ELSE "loaded"
    /\ UNCHANGED <<scene, fresh, pose, time, ub, vert, pending, applied, vpc,
                   global_pose, inst, ks>>

\* Pose pose = mario.default_pose;
CopyDefaultPose ==
    /\ pc = "loaded"
    /\ pose' = model.default_pose
    /\ pc' = "ready"
    /\ UNCHANGED <<scene, fresh, model, animation, vertices, result, oob,
                   assigned, time, ub, vert, pending, applied, vpc,
                   global_pose, inst, ks>>

\* glClear of the frame, then
\* mm.update_pose(&mario, pose, &mario_walk, glfwGetTime());
UpdatePose ==
    /\ pc \in {"ready", "shown"}
    /\ \E t \in 0 .. MaxTime, u \in ReadOutcomes(animation) :
         LET r == update_pose(model, fresh, pose, animation, t, u)
         IN /\ pose' = r.pose
            /\ oob' = (oob \/ r.oob)
            /\ time' = t
            /\ ub' = u
            /\ pc' = IF r.crashed THEN "crashed" ELSE "posed"
    /\ global_pose' = NoPose
    /\ UNCHANGED <<scene, fresh, model, animation, vertices, result, assigned,
                   vert, pending, applied, vpc, inst, ks>>

\* mm.draw_model(&mario, pose, projection, view): the local Pose global_pose
\* starts uninitialised and is handed to the shader (lines 458-465)
DrawModel ==
    /\ pc = "posed"
    /\ LET r == convert_local_to_global_pose(FreshPose(fresh), model, fresh,
                                             pose, TRUE)
       IN /\ global_pose' = r.pose
          /\ oob' = (oob \/ r.oob)
    /\ pc' = "drawn"
    /\ UNCHANGED <<scene, fresh, model, animation, vertices, pose, result,
                   assigned, time, ub, vert, pending, applied, vpc, inst, ks>>

\* mm.draw_skeleton(&mario, pose, projection, view): the bones are drawn from
\* the local Pose global_pose (lines 484-485)
DrawSkeleton ==
    /\ pc = "drawn"
    /\ LET r == convert_local_to_global_pose(FreshPose(fresh), model, fresh,
                                             pose, FALSE)
       IN /\ global_pose' = r.pose
          /\ oob' = (oob \/ r.oob)
    /\ pc' = "shown"
    /\ UNCHANGED <<scene, fresh, model, animation, vertices, pose, result,
                   assigned, time, ub, vert, pending, applied, vpc, inst, ks>>

Next == LoadModel \/ CopyDefaultPose \/ UpdatePose \/ DrawModel \/ DrawSkeleton

Spec == Init /\ [][Next]_vars

(***************************************************************************)
(* process_mesh seen from one vertex: the aiVertexWeights that name the     *)
(* vertex arrive one by one (inner loop, lines 257-265), then the vertex    *)
(* is normalised (lines 268-282)                                            *)
(***************************************************************************)
\* the k-th contribution comes from bone k
Contributions ==
    UNION { { [k \in 1 .. n |-> [bone_id |-> k, mWeight |-> w[k]]] :
                w \in [1 .. n -> 0 .. MaxWeight] }
            : n \in 0 .. MaxContribs }

InitMesh ==
    /\ scene = UnreadableScene
    /\ fresh = CHOOSE f \in FreshMemory : f.byte = 0
    /\ model = FreshModel(fresh)
    /\ animation = FreshAnimation(fresh)
    /\ vertices = << >>
    /\ pose = FreshPose(fresh)
    /\ pc = "mesh"
    /\ result = "none"
    /\ oob = FALSE
    /\ assigned = << >>
    /\ time = 0
    /\ ub = NoRead
    /\ vert = NewVertex
    /\ pending \in Contributions
    /\ applied = << >>
    /\ vpc = "weights"
    /\ global_pose = NoPose
    /\ inst = << >>
    /\ ks = NoCall

\* one iteration of  for (size_t j = 0; j < bone->mNumWeights; j++)
ApplyWeight ==
    /\ vpc = "weights"
    /\ pending # << >>
    /\ vert' = apply_weight(vert, Head(pending).bone_id, Head(pending).mWeight)
    /\ pending' = Tail(pending)
    /\ applied' = Append(applied, Head(pending))
    /\ UNCHANGED <<scene, fresh, model, animation, vertices, pose, pc, result,
                   oob, assigned, time, ub, vpc,
                   global_pose, inst, ks>>

\* the vertex's turn in the normalising loop
NormalizeVertex ==
    /\ vpc = "weights"
    /\ pending = << >>
    /\ vert' = normalize_vertex(vert)
    /\ vpc' = "done"
    /\ UNCHANGED <<scene, fresh, model, animation, vertices, pose, pc, result,
                   oob, assigned, time, ub, pending, applied,
                   global_pose, inst, ks>>

NextMesh == ApplyWeight \/ NormalizeVertex

SpecMesh == InitMesh /\ [][NextMesh]_vars

(***************************************************************************)
(* Bone ids after load_model                                                *)
(***************************************************************************)
Loaded == pc # "start" /\ result = "true"

\* the ids that the loop of process_bones handed to bone nodes
AssignedIds == { assigned[k].id : k \in DOMAIN assigned }

\* C1: after a successful load_model on a fresh Model the ids handed to bone
\* nodes are exactly 0 .. n_bones - 1, one id per bone node, and id 0 is the
\* id of the root bone.
C1_BoneIdsDenseFromZero ==
    (Loaded /\ assigned # << >>) =>
        /\ AssignedIds = 0 .. (model.n_bones - 1)
        /\ \A j, k \in DOMAIN assigned :
               assigned[j].id = assigned[k].id => j = k
        /\ \E k \in DOMAIN assigned :
               assigned[k].id = 0 /\ assigned[k].node = RootNode

\* the bone nodes whose mParent is a bone node as well
HasParentBone(k) ==
    \E j \in DOMAIN assigned : assigned[j].node = scene.parent[assigned[k].node]

\* C2: every bone that has a (named) parent bone received its id after its
\* parent and records it: parent_ids[i] < i for every non-root bone i, also
\* when two nodes of the scene share a name.
C2_ParentIdBelowOwnId ==
    Loaded =>
        \A k \in DOMAIN assigned :
            (/\ HasParentBone(k)
             /\ scene.name[scene.parent[assigned[k].node]] # 0
             /\ assigned[k].id \in BoneSlots) =>
                ArrGet(model.parent_ids, assigned[k].id) < assigned[k].id

\* C3: after load_model the slot of every bone without a parent bone (the
\* root, a bone whose parent node is not a bone) holds a sentinel parent id
\* that is no valid bone id: parent_ids[i] >= n_bones.
C3_ParentlessSlotHoldsSentinel ==
    Loaded =>
        \A k \in DOMAIN assigned :
            (~HasParentBone(k) /\ assigned[k].id \in BoneSlots) =>
                ArrGet(model.parent_ids, assigned[k].id) >= model.n_bones

\* the mesh references that load_model visits
MeshRefs(s) ==
    Cardinality(UNION { {<<n, i>> : i \in DOMAIN s.mMeshes[n]} : n \in Nodes(s) })

\* C4: load_model returns false whenever the scene needs more than
\* MAX_BONES bones or more than MAX_MESHES meshes; it never succeeds with
\* n_bones > 100 or n_meshes > 20 and never writes past a fixed-capacity
\* array.
C4_CapacityExceededFailsLoad ==
    pc = "loaded" =>
        /\ (Len(assigned) > MAX_BONES \/ MeshRefs(scene) > MAX_MESHES) =>
               result = "false"
        /\ result = "true" =>
               model.n_bones <= MAX_BONES /\ model.n_meshes <= MAX_MESHES
        /\ ~oob

(***************************************************************************)
(* The four weight slots of a vertex                                        *)
(***************************************************************************)
\* how many of the contributions seen so far weigh w / more than w
CountApplied(w) == Cardinality({k \in DOMAIN applied : applied[k].mWeight = w})
CountAbove(w) == Cardinality({k \in DOMAIN applied : applied[k].mWeight > w})

\* how many contributions of weight w are among the four largest
TopFourCount(w) ==
    LET room == 4 - CountAbove(w)
    IN IF room <= 0 THEN 0
       ELSE IF CountApplied(w) < room THEN CountApplied(w) ELSE room

\* the sum of the four largest positive contributions
TopFourTotal ==
    LET RECURSIVE Sum(_)
        Sum(w) == IF w = 0 THEN 0 ELSE w * TopFourCount(w) + Sum(w - 1)
    IN Sum(MaxWeight)

SlotSum(v) ==
    RatAdd(RatAdd(RatAdd(v.bone_weights[0], v.bone_weights[1]),
                  v.bone_weights[2]), v.bone_weights[3])

\* C5: after process_mesh the four weights of a vertex sum to 1: the slots
\* are the kept contributions divided by their total, and a vertex without
\* any positive influence gets weights [1, 0, 0, 0] on bone 0.
C5_WeightsSumToOne ==
    vpc = "done" =>
        /\ SlotSum(vert) = Rat(1)
        /\ TopFourTotal = 0 =>
               /\ vert.bone_weights = [i \in Slots |-> IF i = 0 THEN Rat(1) ELSE Rat(0)]
               /\ vert.bone_ids[0] = 0
        /\ TopFourTotal > 0 =>
               \A i \in Slots :
                   \/ vert.bone_weights[i] = Rat(0)
                   \/ \E k \in DOMAIN applied :
                          /\ applied[k].bone_id = vert.bone_ids[i]
                          /\ vert.bone_weights[i] =
                                 RatDiv(Rat(applied[k].mWeight), Rat(TopFourTotal))

\* a vertex bound by several bones of different weight, and one bound by none
C5_Witness_Normalized ==
    /\ vpc = "done"
    /\ Len(applied) >= 3
    /\ \E i, j \in Slots :
           /\ RatLess(Rat(0), vert.bone_weights[i])
           /\ RatLess(vert.bone_weights[i], vert.bone_weights[j])
           /\ RatLess(vert.bone_weights[j], Rat(1))

C5_Witness_NoInfluence ==
    /\ vpc = "done"
    /\ Len(applied) >= 2
    /\ TopFourTotal = 0

\* after every prefix of the contributions the slots hold the (up to) four
\* largest positive ones, each with the bone id it came with
SlotsHoldFourLargest ==
    vpc = "weights" =>
        /\ \A w \in 1 .. MaxWeight :
               Cardinality({i \in Slots : vert.bone_weights[i] = Rat(w)})
                   = TopFourCount(w)
        /\ \A i \in Slots :
               \/ vert.bone_weights[i] = Rat(0)
               \/ \E k \in DOMAIN applied :
                      /\ applied[k].bone_id = vert.bone_ids[i]
                      /\ Rat(applied[k].mWeight) = vert.bone_weights[i]
        /\ \A i, j \in Slots :
               (i # j /\ vert.bone_weights[i] # Rat(0)
                      /\ vert.bone_weights[j] # Rat(0)) =>
                   vert.bone_ids[i] # vert.bone_ids[j]

\* what one arriving contribution may do to the slots
AcceptedOnlyAboveMinimum ==
    (vpc = "weights" /\ pending # << >> /\ vpc' = "weights") =>
        LET c == Head(pending)
            IsMin(i) == \A j \in Slots :
                            ~RatLess(vert.bone_weights[j], vert.bone_weights[i])
        IN \/ /\ vert' = vert
              /\ \A i \in Slots : ~RatLess(vert.bone_weights[i], Rat(c.mWeight))
           \/ \E i \in Slots :
                 /\ IsMin(i)
                 /\ RatLess(vert.bone_weights[i], Rat(c.mWeight))
                 /\ vert'.bone_weights =
                        [vert.bone_weights EXCEPT ![i] = Rat(c.mWeight)]
                 /\ vert'.bone_ids = [vert.bone_ids EXCEPT ![i] = c.bone_id]

\* C6: for any sequence of contributions to one vertex the four slots hold
\* exactly the (up to) four largest positive contributions, each with its
\* own bone id; a contribution is accepted only if it exceeds the current
\* minimum slot, and then it replaces that slot.
C6_FourLargestKept ==
    [](SlotsHoldFourLargest) /\ [][AcceptedOnlyAboveMinimum]_vars

\* five contributions have arrived, a small one was turned away or evicted
C6_Witness_Evicted ==
    /\ vpc = "weights"
    /\ Len(applied) >= 5
    /\ \A i \in Slots : RatLess(Rat(0), vert.bone_weights[i])
    /\ \E k \in DOMAIN applied :
           /\ applied[k].mWeight > 0
           /\ \A i \in Slots : vert.bone_ids[i] # applied[k].bone_id
    /\ \E i \in Slots : vert.bone_ids[i] = 5

(***************************************************************************)
(* Channels and poses                                                       *)
(***************************************************************************)
\* the keyframe tracks of the animation that load_model compiles
Tracks ==
    IF Len(scene.mAnimations) > 0 THEN scene.mAnimations[1].mChannels ELSE << >>

\* the tracks whose node name is in the bone-id map
TracksNamingBone ==
    { k \in DOMAIN Tracks : Tracks[k].mNodeName \in DOMAIN model.bone_mapping }

ChannelIds == { i \in BoneSlots : i < animation.n_channels }

\* C7: a track whose node name is not in the bone-id map creates no Channel:
\* after load n_channels is the number of tracks naming a bone, and every
\* channel in [0, n_channels) carries the bone id of such a track.
C7_DroppedTrackCreatesNoChannel ==
    Loaded =>
        /\ animation.n_channels = Cardinality(TracksNamingBone)
        /\ \A i \in ChannelIds :
               \E k \in TracksNamingBone :
                   ArrGet(animation.channels, i).bone_id
                       = model.bone_mapping[Tracks[k].mNodeName]

\* channel i is the last one that writes the pose of its bone
LastChannelOfBone(i) ==
    ~ \E j \in ChannelIds :
          /\ j > i
          /\ ArrGet(animation.channels, j).bone_id
                 = ArrGet(animation.channels, i).bone_id

\* C8: update_pose evaluates the rotation of a channel independently of its
\* position keys: sampled from the rotation keys whenever there are any, the
\* bone's default decomposed rotation otherwise, and the empty rotation-key
\* array of a channel with position keys is never read.
C8_RotationIndependentOfPositionKeys ==
    pc \in {"posed", "crashed"} =>
        /\ ub = NoRead
        /\ pc = "posed"
        /\ \A i \in ChannelIds :
               LET channel == ArrGet(animation.channels, i)
                   lt == looped_time(time, animation.duration)
               IN (channel.bone_id \in BoneSlots /\ LastChannelOfBone(i)) =>
                      mat4_to_pos_rot_scale(ArrGet(pose, channel.bone_id)).rotation
                          = IF channel.rotation_keys # << >>
                            THEN get_key_value("quat", channel.rotation_keys, lt)
                            ELSE ArrGet(model.default_pose_prs,
                                        channel.bone_id).rotation

\* C9: after update_pose, at any time, every bone id in 0 .. n_bones - 1
\* that no kept track animates has pose[i] = default_pose[i].
C9_UnanimatedBoneKeepsDefault ==
    (pc = "posed" /\ result = "true") =>
        \A i \in BoneSlots :
            (/\ i < model.n_bones
             /\ ~ \E k \in TracksNamingBone :
                    model.bone_mapping[Tracks[k].mNodeName] = i) =>
                ArrGet(pose, i) = ArrGet(model.default_pose, i)

C11_BoundaryLaw ==
    pc = "posed" =>
        \A i \in ChannelIds :
            LET channel == ArrGet(animation.channels, i)
                lt  == looped_time(time, animation.duration)
                prs == mat4_to_pos_rot_scale(ArrGet(pose, channel.bone_id))
                pk  == channel.position_keys
                rk  == channel.rotation_keys
            IN (channel.bone_id \in BoneSlots /\ LastChannelOfBone(i)
                    /\ animation.duration > 0) =>
                   /\ (pk # << >> /\ lt = 0) => prs.position = pk[1].value
                   /\ (pk # << >> /\ lt >= Last(pk).time) =>
                          prs.position = Last(pk).value
                   /\ (rk # << >> /\ lt = 0) => prs.rotation = rk[1].value
                   /\ (rk # << >> /\ lt >= Last(rk).time) =>
                          prs.rotation = Last(rk).value

(***************************************************************************)
(* Global poses                                                             *)
(***************************************************************************)
\* C12: after convert_local_to_global_pose with apply_offsets = false on a
\* loaded model, every bone i has global[i] = global[parent_ids[i]] * local[i]
\* when its node has a parent bone and global[i] = local[i] otherwise.
C12_GlobalIsParentTimesLocal ==
    (pc = "shown" /\ result = "true") =>
        \A k \in DOMAIN assigned :
            LET i == assigned[k].id
            IN i \in BoneSlots =>
                   ArrGet(global_pose, i)
                       = IF HasParentBone(k)
                         THEN MatMul(ArrGet(global_pose,
                                            ArrGet(model.parent_ids, i)),
                                     ArrGet(pose, i))
                         ELSE ArrGet(pose, i)

\* C13: for every bone i the result of convert_local_to_global_pose with
\* apply_offsets = true is the result with apply_offsets = false on the same
\* arguments, right-multiplied by offsets[i]; no offset of an ancestor enters.
C13_OffsetsFoldedAfterHierarchy ==
    pc = "drawn" =>
        \A i \in BoneSlots :
            i < model.n_bones =>
                ArrGet(global_pose, i)
                    = MatMul(ArrGet(convert_local_to_global_pose(
                                        FreshPose(fresh), model, fresh, pose,
                                        FALSE).pose, i),
                             ArrGet(model.offsets, i))

\* draw_model resolved a bone whose parent bone is skinned as well: both have
\* a bind offset that is not the identity
C13_Witness_SkinnedParent ==
    /\ pc = "drawn"
    /\ result = "true"
    /\ \E j, k \in DOMAIN assigned :
           /\ assigned[j].node = scene.parent[assigned[k].node]
           /\ assigned[k].id \in BoneSlots
           /\ ArrGet(model.parent_ids, assigned[k].id) = assigned[j].id
           /\ assigned[j].id < assigned[k].id
           /\ ArrGet(model.offsets, assigned[j].id) # IdentityMat
           /\ ArrGet(model.offsets, assigned[k].id) # IdentityMat
           /\ Len(ArrGet(global_pose, assigned[k].id)) = 3

(***************************************************************************)
(* Repeated sampling                                                        *)
(***************************************************************************)
\* buffers a caller may hand to update_pose: never written, a copy of the
\* default pose, or the pose of the frame before
PriorPoses ==
    { FreshPose(f) : f \in FreshMemory } \cup {model.default_pose, pose}

\* update_pose of the same model, animation and time on buffer p, the reads
\* of empty key arrays behaving as u, completes and gives the pose of the
\* bones 0 .. n_bones - 1 that the call before gave
SamePoseAgain(p, u) ==
    LET r == update_pose(model, fresh, p, animation, time, u)
    IN /\ ~r.crashed
       /\ \A i \in BoneSlots :
              i < model.n_bones => ArrGet(r.pose, i) = ArrGet(pose, i)

\* C14: for a loaded Model, Animation and time, update_pose produces the same
\* pose for the bones 0 .. n_bones - 1 whatever the prior contents of the
\* caller's Pose buffer and however often the call is repeated.
C14_UpdatePoseIdempotent ==
    pc = "posed" =>
        \A p \in PriorPoses, u \in ReadOutcomes(animation) : SamePoseAgain(p, u)

(***************************************************************************)
(* Errors of load_model                                                     *)
(***************************************************************************)
\* C16: load_model reports every load problem through its boolean result and
\* never through an exception: false when the asset cannot be read, and for
\* every readable scene, one whose mesh binds a bone name without a bone id
\* included, it returns without an exception escaping.
C16_NoExceptionEscapes ==
    pc # "start" =>
        /\ result # "threw"
        /\ result \in {"true", "false"}
        /\ ~scene.readable => result = "false"

(***************************************************************************)
(* The bones gather_bones includes                                          *)
(***************************************************************************)
\* the names that the meshes of the scene bind: the names with a bind offset
SkinNames ==
    UNION { UNION { { scene.meshes[scene.mMeshes[n][i]].bones[j].name :
                        j \in DOMAIN scene.meshes[scene.mMeshes[n][i]].bones }
                    : i \in DOMAIN scene.mMeshes[n] }
            : n \in Nodes(scene) }

Skinned(n) == scene.name[n] \in SkinNames

\* node a lies on the path from the mParent of node n up to the root
RECURSIVE IsAncestor(_, _)
IsAncestor(a, n) ==
    IF scene.parent[n] = 0 THEN FALSE
    ELSE scene.parent[n] = a \/ IsAncestor(a, scene.parent[n])

\* the nodes that gather_bones inserted into included_bones
Included == { assigned[k].node : k \in DOMAIN assigned }

\* C17: gather_bones includes a node as a bone if and only if the node is
\* directly skinned or is an ancestor of an included bone; the included set is
\* closed under taking parents and contains the root whenever a node is
\* skinned.
C17_IncludedIffSkinnedOrAncestor ==
    (pc = "loaded" /\ result = "true") =>
        /\ \A n \in Nodes(scene) :
               n \in Included <=>
                   (Skinned(n) \/ \E d \in Included : IsAncestor(n, d))
        /\ Included =
               { n \in Nodes(scene) :
                   Skinned(n) \/ \E d \in Nodes(scene) :
                                     Skinned(d) /\ IsAncestor(n, d) }
        /\ \A n \in Included : scene.parent[n] # 0 => scene.parent[n] \in Included
        /\ (\E n \in Nodes(scene) : Skinned(n)) => RootNode \in Included

\* a root that no mesh skins is a bone through a skinned grandchild, its
\* child between them as well, and no other node of the scene is skinned
C17_Witness_GrandparentIncluded ==
    /\ pc = "loaded"
    /\ result = "true"
    /\ ~Skinned(RootNode)
    /\ RootNode \in Included
    /\ \E c, d \in Included :
           /\ scene.parent[c] = RootNode
           /\ scene.parent[d] = c
           /\ ~Skinned(c)
           /\ Skinned(d)
           /\ \A n \in Nodes(scene) : Skinned(n) => n = d

(***************************************************************************)
(* End markers                                                              *)
(***************************************************************************)
\* the entries of bone_ends that were made for node n: the position of an
\* entry is the translation of the node's mTransformation (lines 221-225)
EndMarkersOf(n) ==
    { k \in DOMAIN model.bone_ends :
        model.bone_ends[k][2] = scene.mTransformation[n].p }

\* C18: every node that is a descendant of a bone, has no bone descendants of
\* its own and is not skinned is not a bone and is recorded as an end marker
\* attached to a valid bone id; no node is both a bone and an end marker.
C18_LeafBelowBoneIsEndMarker ==
    (pc = "loaded" /\ result = "true") =>
        /\ \A n \in Nodes(scene) :
               (/\ \E b \in Included : IsAncestor(b, n)
                /\ ~\E d \in Included : IsAncestor(n, d)
                /\ ~Skinned(n)) =>
                   /\ n \notin Included
                   /\ \E k \in EndMarkersOf(n) :
                          model.bone_ends[k][1] \in AssignedIds
        /\ \A n \in Included : EndMarkersOf(n) = {}

(***************************************************************************)
(* One call of get_key_value<glm::vec3>, statement by statement (lines      *)
(* 405-429).  ks = [pc, keys, t, bbegin, bend, reads, shrinks, result]:     *)
(* reads are the indices of keys read so far, shrinks tells whether every   *)
(* iteration so far made [bbegin, bend] smaller or left the loop             *)
(***************************************************************************)
MaxKeyTime == 10

\* the times a key can carry; the key times of one array are distinct
KeyTimes == {0, 2, 6, MaxKeyTime}

\* the value of the key at time tau: no straight line through three keys
KeyValue(tau) == RatNorm(tau * tau, 2 * MaxKeyTime)

\* the keys at the times S, sorted by ascending time
KeyArrayOf(S) ==
    [i \in 1 .. Cardinality(S) |->
        LET tau == CHOOSE x \in S : Cardinality({y \in S : y < x}) = i - 1
        IN [time |-> tau, value |-> KeyValue(tau)]]

KeyArrays == { KeyArrayOf(S) : S \in (SUBSET KeyTimes) \ {{}} }

\* float time: a number, or the NaN that a zero duration makes of looped_time
NaNTime == [nan |-> TRUE, v |-> 0]
SampleTimes ==
    { [nan |-> FALSE, v |-> k] : k \in 0 .. (MaxKeyTime + 1) } \cup {NaNTime}

\* a glm::vec3 computed from NaN
NaNValue == <<0, 0>>

\* comparisons of floats are false when an operand is NaN
FloatLess(t, x) == ~t.nan /\ t.v < x
FloatGeq(t, x) == ~t.nan /\ t.v >= x
FloatGreater(t, x) == ~t.nan /\ t.v > x

\* lines 418-425 without the else-if branch that raises bbegin
key_compare_no_upper(keys, t, mid, bend) ==
    IF FloatLess(t, keys[mid + 1].time) THEN "lower" ELSE "found"

\* lines 418-425: the branch that one iteration takes
key_compare(keys, t, mid, bend) ==
    IF FloatLess(t, keys[mid + 1].time) THEN "lower"
    ELSE IF mid < bend /\ FloatGreater(t, keys[mid + 2].time) THEN "upper"
    ELSE "found"

\* the indices that the conditions of lines 418 and 420 read
compare_reads(mid, bend) == IF mid < bend THEN {mid, mid + 1} ELSE {mid}

\* lines 427-428
key_interp(k0, k1, t) ==
    IF t.nan THEN NaNValue
    ELSE Mix("vec3", k0.value, k1.value,
             RatNorm(t.v - k0.time, k1.time - k0.time))

\* what a read past the end of the vector does: it faults or yields a key
KeyReadOutcomes ==
    { [crash |-> TRUE, key |-> [time |-> 0, value |-> Rat(0)]],
      [crash |-> FALSE, key |-> [time |-> 0, value |-> Rat(0)]],
      [crash |-> FALSE, key |-> [time |-> 7, value |-> Rat(7)]] }

InitKeys ==
    /\ scene = UnreadableScene
    /\ fresh = CHOOSE f \in FreshMemory : f.byte = 0
    /\ model = FreshModel(fresh)
    /\ animation = FreshAnimation(fresh)
    /\ vertices = << >>
    /\ pose = FreshPose(fresh)
    /\ pc = "keys"
    /\ result = "none"
    /\ oob = FALSE
    /\ assigned = << >>
    /\ time = 0
    /\ ub = NoRead
    /\ vert = NewVertex
    /\ pending = << >>
    /\ applied = << >>
    /\ vpc = "idle"
    /\ global_pose = NoPose
    /\ inst = << >>
    /\ \E keys \in KeyArrays, t \in SampleTimes :
           ks = [pc |-> "front", keys |-> keys, t |-> t, bbegin |-> 0,
                 bend |-> 0, reads |-> {}, shrinks |-> TRUE,
                 result |-> NaNValue]

\* lines 408-410
KeyFront ==
    /\ ks.pc = "front"
    /\ ks' = IF FloatLess(ks.t, ks.keys[1].time)
             THEN [ks EXCEPT !.pc = "done", !.reads = @ \cup {0},
                             !.result = ks.keys[1].value]
             ELSE [ks EXCEPT !.pc = "back", !.reads = @ \cup {0}]
    /\ UNCHANGED <<scene, fresh, model, animation, vertices, pose, pc, result,
                   oob, assigned, time, ub, vert, pending, applied, vpc,
                   global_pose, inst>>

\* lines 411-413
KeyBack ==
    /\ ks.pc = "back"
    /\ ks' = IF FloatGeq(ks.t, Last(ks.keys).time)
             THEN [ks EXCEPT !.pc = "done",
                             !.reads = @ \cup {Len(ks.keys) - 1},
                             !.result = Last(ks.keys).value]
             ELSE [ks EXCEPT !.pc = "init",
                             !.reads = @ \cup {Len(ks.keys) - 1}]
    /\ UNCHANGED <<scene, fresh, model, animation, vertices, pose, pc, result,
                   oob, assigned, time, ub, vert, pending, applied, vpc,
                   global_pose, inst>>

\* lines 414-415
KeyInit ==
    /\ ks.pc = "init"
    /\ ks' = [ks EXCEPT !.pc = "loop", !.bbegin = 0, !.bend = Len(ks.keys) - 1]
    /\ UNCHANGED <<scene, fresh, model, animation, vertices, pose, pc, result,
                   oob, assigned, time, ub, vert, pending, applied, vpc,
                   global_pose, inst>>

\* lines 416-426, one test of the loop condition and one iteration; bend - 1
\* is size_t arithmetic and wraps at bend = 0
KeyLoop ==
    /\ ks.pc = "loop"
    /\ ks' = IF ks.bend = 0 \/ ks.bbegin < ks.bend - 1
             THEN LET mid == ks.bbegin + (ks.bend - ks.bbegin) \div 2
                      branch == key_compare(ks.keys, ks.t, mid, ks.bend)
                      reads == ks.reads \cup compare_reads(mid, ks.bend)
                  IN IF branch = "lower"
                     THEN [ks EXCEPT !.bend = mid, !.reads = reads,
                                     !.shrinks = @ /\ mid < ks.bend]
                     ELSE IF branch = "upper"
                     THEN [ks EXCEPT !.bbegin = mid + 1, !.reads = reads,
                                     !.shrinks = @ /\ mid + 1 > ks.bbegin]
                     ELSE [ks EXCEPT !.bbegin = mid, !.reads = reads,
                                     !.pc = "interp"]
             ELSE [ks EXCEPT !.pc = "interp"]
    /\ UNCHANGED <<scene, fresh, model, animation, vertices, pose, pc, result,
                   oob, assigned, time, ub, vert, pending, applied, vpc,
                   global_pose, inst>>

\* lines 427-428: keys[bbegin] and keys[bbegin + 1] are read unchecked
KeyInterp ==
    /\ ks.pc = "interp"
    /\ IF ks.bbegin + 1 < Len(ks.keys)
       THEN ks' = [ks EXCEPT !.pc = "done",
                             !.reads = @ \cup {ks.bbegin, ks.bbegin + 1},
                             !.result = key_interp(ks.keys[ks.bbegin + 1],
                                                   ks.keys[ks.bbegin + 2],
                                                   ks.t)]
       ELSE \E o \in KeyReadOutcomes :
                ks' = [ks EXCEPT !.pc = IF o.crash THEN "crashed" ELSE "done",
                                 !.reads = @ \cup {ks.bbegin, ks.bbegin + 1},
                                 !.result = IF o.crash THEN @
                                            ELSE key_interp(
                                                     ks.keys[ks.bbegin + 1],
                                                     o.key, ks.t)]
    /\ UNCHANGED <<scene, fresh, model, animation, vertices, pose, pc, result,
                   oob, assigned, time, ub, vert, pending, applied, vpc,
                   global_pose, inst>>

NextKeys == KeyFront \/ KeyBack \/ KeyInit \/ KeyLoop \/ KeyInterp

SpecKeys == InitKeys /\ [][NextKeys]_vars

(***************************************************************************)
(* Sampling between two keys                                                *)
(***************************************************************************)
\* x + (y - x) * a on rationals
Lerp(x, y, a) ==
    RatNorm(x[1] * y[2] * a[2] + (y[1] * x[2] - x[1] * y[2]) * a[1],
            x[2] * y[2] * a[2])

\* the call returned and its time lies between the first and the last key
SampledInside ==
    /\ ks.pc = "done"
    /\ ~ks.t.nan
    /\ ks.keys[1].time <= ks.t.v
    /\ ks.t.v < Last(ks.keys).time

\* C19: for a non-empty key array sorted by ascending time and a time t with
\* first_key_time <= t < last_key_time, get_key_value selects the adjacent
\* pair k, k + 1 with keys[k].time <= t <= keys[k + 1].time and returns the
\* linear interpolation of their values at fraction
\* (t - keys[k].time) / (keys[k + 1].time - keys[k].time).
C19_InterpolatesBracketingPair ==
    SampledInside =>
        LET k  == ks.bbegin + 1
            k0 == ks.keys[k]
            k1 == ks.keys[k + 1]
        IN /\ k \in 1 .. (Len(ks.keys) - 1)
           /\ k0.time <= ks.t.v
           /\ ks.t.v <= k1.time
           /\ ks.result = Lerp(k0.value, k1.value,
                               RatNorm(ks.t.v - k0.time, k1.time - k0.time))
           /\ ks.result = get_key_value("vec3", ks.keys, ks.t.v)

\* the keys (t = 0, 0) and (t = 10, 5) sampled at t = 5 gave 2.5
C19_Witness_HalfWay ==
    /\ ks.pc = "done"
    /\ ks.keys = << [time |-> 0, value |-> Rat(0)],
                    [time |-> MaxKeyTime, value |-> KeyValue(MaxKeyTime)] >>
    /\ ks.t = [nan |-> FALSE, v |-> MaxKeyTime \div 2]
    /\ ks.result = <<MaxKeyTime \div 2, 2>>

\* C20: for every non-empty key array sorted by ascending time and every time
\* t the search loop of get_key_value terminates, each iteration strictly
\* shrinking [bbegin, bend] or leaving the loop, and every index it reads,
\* bbegin + 1 of the final interpolation included, lies within 0 .. size - 1.
C20_SearchStaysInsideKeys ==
    ks.pc # "none" =>
        /\ ks.shrinks
        /\ ks.reads \subseteq 0 .. (Len(ks.keys) - 1)
        /\ ks.pc # "crashed"

(***************************************************************************)
(* Two instances of one loaded asset.  Each has its own Pose pose and its   *)
(* own Pose global_pose (out) and runs update_pose (lines 431-449), then    *)
(* convert_local_to_global_pose with offsets (lines 518-532), one write of  *)
(* a Pose slot per step; the steps of the two interleave freely.            *)
(* inst = [asset, run]: asset is the Model and Animation as load_model left *)
(* them, run[k] = [pc, time, u, i, pose, out, stray] is instance k; stray   *)
(* tells that the instance wrote outside its own two buffers                *)
(***************************************************************************)
Instances == {1, 2}
Other(k) == 3 - k

\* one animation of at most one track over root "1", bone "2" and node "3"
SharedScenes ==
    { sc \in AnimScenes : Len(sc.mAnimations[1].mChannels) <= 1 }

\* a write past the end of a Pose lands outside every object of the program,
\* in the Pose of the other instance, or in the Model
StrayTargets == {"elsewhere", "other", "model"}

\* the slot that a write to slot i of a Pose hits in the object behind it
StraySlot(i) == (i - MAX_BONES) % MAX_BONES

\* instance k continues as record r after writing value v to slot i of one
\* of its Pose buffers
InstanceWrites(k, r, i, v) ==
    IF i < MAX_BONES
    THEN /\ inst' = [inst EXCEPT !.run[k] = r]
         /\ UNCHANGED model
    ELSE \E target \in StrayTargets :
             LET rs == [r EXCEPT !.stray = TRUE]
             IN IF target = "other"
                THEN /\ inst' = [inst EXCEPT
                                    !.run[k] = rs,
                                    !.run[Other(k)].pose =
                                        ArrPut(@, StraySlot(i), v)]
                     /\ UNCHANGED model
                ELSE IF target = "model"
                THEN /\ inst' = [inst EXCEPT !.run[k] = rs]
                     /\ model' = [model EXCEPT !.default_pose =
                                     ArrPut(@, StraySlot(i), v)]
                ELSE /\ inst' = [inst EXCEPT !.run[k] = rs]
                     /\ UNCHANGED model

\* the value that a step wrote to slot i: read back from an array that has
\* the slot
Written(step_pose, i) == ArrGet(step_pose, i)
Roomy(p) == [p EXCEPT !.cap = 2 ^ 8]

NoInstanceCrashed == \A k \in Instances : inst.run[k].pc # "crashed"

InitShared ==
    /\ scene \in SharedScenes
    /\ fresh \in FreshMemory
    /\ LET r == load_model(scene, fresh, FreshModel(fresh),
                           FreshAnimation(fresh))
       IN /\ model = r.model
          /\ animation = r.animation
          /\ vertices = r.vertices
          /\ assigned = r.assigned
          /\ result = r.result
          /\ oob = r.oob
          /\ inst = [asset |-> [model |-> r.model, animation |-> r.animation],
                     run |-> [k \in Instances |->
                                 [pc |-> "idle", time |-> k, u |-> NoRead,
                                  i |-> 0, pose |-> r.model.default_pose,
                                  out |-> FreshPose(fresh), stray |-> FALSE]]]
    /\ pose = FreshPose(fresh)
    /\ pc = "shared"
    /\ time = 0
    /\ ub = NoRead
    /\ vert = NewVertex
    /\ pending = << >>
    /\ applied = << >>
    /\ vpc = "idle"
    /\ global_pose = NoPose
    /\ ks = NoCall

\* the call update_pose(&model, pose_k, &animation, time_k) begins; u is
\* what its reads of empty key arrays will do
SharedBegin(k) ==
    /\ NoInstanceCrashed
    /\ inst.run[k].pc = "idle"
    /\ \E u \in ReadOutcomes(animation) :
           inst' = [inst EXCEPT !.run[k].pc = "reset", !.run[k].u = u]
    /\ UNCHANGED <<scene, fresh, model, animation, vertices, pose, pc, result,
                   oob, assigned, time, ub, vert, pending, applied, vpc,
                   global_pose, ks>>

\* lines 435-437, one iteration
SharedReset(k) ==
    /\ NoInstanceCrashed
    /\ inst.run[k].pc = "reset"
    /\ LET r == inst.run[k]
       IN IF r.i < model.n_bones
          THEN InstanceWrites(
                   k,
                   [r EXCEPT !.i = @ + 1,
                             !.pose = ArrPut(@, r.i,
                                             ArrRead(model.default_pose, r.i,
                                                     fresh.mat))],
                   r.i, ArrRead(model.default_pose, r.i, fresh.mat))
          ELSE /\ inst' = [inst EXCEPT !.run[k].pc = "channels",
                                       !.run[k].i = 0]
               /\ UNCHANGED model
    /\ UNCHANGED <<scene, fresh, animation, vertices, pose, pc, result, oob,
                   assigned, time, ub, vert, pending, applied, vpc,
                   global_pose, ks>>

\* lines 438-448, one iteration
SharedChannel(k) ==
    /\ NoInstanceCrashed
    /\ inst.run[k].pc = "channels"
    /\ LET r  == inst.run[k]
           lt == looped_time(r.time, animation.duration)
           st == pose_channel_step(model, fresh, animation, lt, r.u,
                                   [pose |-> r.pose, oob |-> FALSE,
                                    crashed |-> FALSE], r.i)
           id == ArrGet(animation.channels, r.i).bone_id
       IN IF r.i >= animation.n_channels
          THEN /\ inst' = [inst EXCEPT !.run[k].pc = "hierarchy",
                                       !.run[k].i = 0]
               /\ UNCHANGED model
          ELSE IF st.crashed
          THEN /\ inst' = [inst EXCEPT !.run[k].pc = "crashed"]
               /\ UNCHANGED model
          ELSE InstanceWrites(
                   k, [r EXCEPT !.i = @ + 1, !.pose = st.pose], id,
                   Written(pose_channel_step(
                               model, fresh, animation, lt, r.u,
                               [pose |-> Roomy(r.pose), oob |-> FALSE,
                                crashed |-> FALSE], r.i).pose, id))
    /\ UNCHANGED <<scene, fresh, animation, vertices, pose, pc, result, oob,
                   assigned, time, ub, vert, pending, applied, vpc,
                   global_pose, ks>>

\* lines 520-526, one iteration, apply_offsets = true
SharedHierarchy(k) ==
    /\ NoInstanceCrashed
    /\ inst.run[k].pc = "hierarchy"
    /\ LET r == inst.run[k]
       IN IF r.i < model.n_bones
          THEN InstanceWrites(
                   k,
                   [r EXCEPT !.i = @ + 1,
                             !.out = hierarchy_step(
                                         model, fresh, r.pose, TRUE,
                                         [pose |-> r.out, oob |-> FALSE],
                                         r.i).pose],
                   r.i,
                   Written(hierarchy_step(
                               model, fresh, r.pose, TRUE,
                               [pose |-> Roomy(r.out), oob |-> FALSE],
                               r.i).pose, r.i))
          ELSE /\ inst' = [inst EXCEPT !.run[k].pc = "offsets",
                                       !.run[k].i = 0]
               /\ UNCHANGED model
    /\ UNCHANGED <<scene, fresh, animation, vertices, pose, pc, result, oob,
                   assigned, time, ub, vert, pending, applied, vpc,
                   global_pose, ks>>

\* lines 527-531, one iteration
SharedOffset(k) ==
    /\ NoInstanceCrashed
    /\ inst.run[k].pc = "offsets"
    /\ LET r == inst.run[k]
       IN IF r.i < model.n_bones
          THEN InstanceWrites(
                   k,
                   [r EXCEPT !.i = @ + 1,
                             !.out = offset_step(
                                         model, fresh,
                                         [pose |-> r.out, oob |-> FALSE],
                                         r.i).pose],
                   r.i,
                   Written(offset_step(
                               model, fresh,
                               [pose |-> Roomy(r.out), oob |-> FALSE],
                               r.i).pose, r.i))
          ELSE /\ inst' = [inst EXCEPT !.run[k].pc = "done"]
               /\ UNCHANGED model
    /\ UNCHANGED <<scene, fresh, animation, vertices, pose, pc, result, oob,
                   assigned, time, ub, vert, pending, applied, vpc,
                   global_pose, ks>>

NextShared ==
    \E k \in Instances :
        \/ SharedBegin(k)
        \/ SharedReset(k)
        \/ SharedChannel(k)
        \/ SharedHierarchy(k)
        \/ SharedOffset(k)

SpecShared == InitShared /\ [][NextShared]_vars

\* what instance k computes when it runs with no other instance
AlonePose(k) ==
    update_pose(inst.asset.model, fresh, inst.asset.model.default_pose,
                inst.asset.animation, inst.run[k].time, inst.run[k].u).pose

AloneGlobalPose(k) ==
    convert_local_to_global_pose(FreshPose(fresh), inst.asset.model, fresh,
                                 AlonePose(k), TRUE).pose

\* C15: two instances that share one loaded Model and Animation and have
\* their own Pose buffers may run update_pose and
\* convert_local_to_global_pose in any interleaving: neither operation writes
\* the Model or the Animation, each writes only its own output buffer, and
\* the result of each instance equals the result of running it alone.
C15_InstancesDoNotInterfere ==
    pc = "shared" =>
        /\ model = inst.asset.model
        /\ animation = inst.asset.animation
        /\ \A k \in Instances :
               /\ ~inst.run[k].stray
               /\ inst.run[k].pc = "done" =>
                      /\ inst.run[k].pose = AlonePose(k)
                      /\ inst.run[k].out = AloneGlobalPose(k)

====
